---- MODULE Spec2Model ----
(***************************************************************************)
(* The conversational loop of the Interview screen (Interview component):  *)
(* browser speech recognition, the silence timer, speech synthesis, the    *)
(* three remote calls and the timers that chain them.                      *)
(*                                                                         *)
(* Every handler of the component is one action.  The handlers all run in  *)
(* the closure of the FIRST render: the mount effect has no dependencies,  *)
(* and everything that runs later is reached from what it installed        *)
(* (recognition.onresult, the start timer).  A handler therefore reads     *)
(* the state of the first render (currentQuestion = 0, isListening =       *)
(* false) while its setState calls update the state the screen shows.      *)
(*                                                                         *)
(* Time is not counted, but the order in which timers can fire is kept.    *)
(* Network replies, utterance ends, recognition events and the unmount     *)
(* take any time.  A timer set by such an event is anchored at the event;  *)
(* a timer set by a timer callback is anchored where that timer was, with  *)
(* the delays added up.  A timer fires only when no pending timer is known *)
(* to be due before it: one created earlier with a delay that is not       *)
(* longer, or one anchored no later whose added-up delay is not longer.    *)
(*                                                                         *)
(* The InterviewSetup and History screens follow at the end, each with a   *)
(* specification of its own (SetupSpec, HistorySpec): App shows one screen *)
(* at a time.                                                              *)
(***************************************************************************)
EXTENDS Integers, Sequences, FiniteSets, Bags, TLC

VARIABLES
    numQ,               \* questions.length (initialQuestions)
    supported,          \* window.SpeechRecognition exists: recognitionRef.current is set
    mounted,            \* the component is mounted
    view,               \* App's currentView, as far as setCurrentView('history') sets it
    currentQuestion,    \* React state
    isListening,        \* React state
    isSpeaking,         \* React state
    waitingForResponse, \* React state
    loading,            \* React state
    conversationHistory,\* React state: the conversation log, oldest record first
    rec,                \* the SpeechRecognition object's state
    buffer,             \* finalTranscriptBuffer: the final fragments received, in order
    timers,             \* pending setTimeout callbacks, in creation order
    synth,              \* speechSynthesis queue; the head is the utterance being spoken
    cancelled,          \* utterances removed by cancel() whose event is not delivered yet
    fetches,            \* pending requests, each with the continuation that awaits it
    finals,             \* final fragments the user may still produce (bounds the run)
    vocabulary,         \* the fragments the user's speech is recognized as in this run
    sample,             \* ClassifySpec: the text, as a sequence of pieces
    branch,             \* ClassifySpec: the branch taken for it
    setupScreen,        \* the InterviewSetup component: its state and its attempt
    historyScreen       \* the History component: its state and its requests

vars == <<numQ, supported, mounted, view, currentQuestion, isListening, isSpeaking,
          waitingForResponse, loading, conversationHistory, rec, buffer, timers,
          synth, cancelled, fetches, finals, vocabulary, sample, branch,
          setupScreen, historyScreen>>

(***************************************************************************)
(* Bounds of the model.                                                    *)
(***************************************************************************)
MaxQuestions == 3   \* the question list has 0..MaxQuestions entries
MaxFinals == 2      \* final transcript fragments the user produces in one run
OneTurnFinals == 1  \* the same, in the runs of a single answer
ListenFinals == 2   \* the same, in the runs of plain answers
MaxParts == 2       \* pieces a sample text of ClassifySpec is made of

(***************************************************************************)
(* Texts are sequences of characters, so that toLowerCase, includes and    *)
(* trim are computed and not assumed.                                      *)
(***************************************************************************)
Upper == <<"A","B","C","D","E","F","G","H","I","J","K","L","M",
           "N","O","P","Q","R","S","T","U","V","W","X","Y","Z">>
Lower == <<"a","b","c","d","e","f","g","h","i","j","k","l","m",
           "n","o","p","q","r","s","t","u","v","w","x","y","z">>

\* One character of String.prototype.toLowerCase.
lowerChar(c) ==
    IF \E i \in DOMAIN Upper : Upper[i] = c
    THEN Lower[CHOOSE i \in DOMAIN Upper : Upper[i] = c]
    ELSE c

toLowerCase(t) == [i \in 1..Len(t) |-> lowerChar(t[i])]

\* String.prototype.includes: p occurs in t as a substring.
includes(t, p) ==
    \E u \in {t} :
        \E i \in 0..(Len(u) - Len(p)) : \A j \in 1..Len(p) : u[i + j] = p[j]

RECURSIVE trimStart(_)
trimStart(t) == IF t # <<>> /\ Head(t) = " " THEN trimStart(Tail(t)) ELSE t

RECURSIVE trimEnd(_)
trimEnd(t) ==
    IF t # <<>> /\ t[Len(t)] = " " THEN trimEnd(SubSeq(t, 1, Len(t) - 1)) ELSE t

\* String.prototype.trim (the only whitespace the buffer holds is the space).
trim(t) == trimEnd(trimStart(t))

\* The command phrases of processUserResponse.
P_nextQuestion == <<"n","e","x","t"," ","q","u","e","s","t","i","o","n">>
P_moveOn == <<"m","o","v","e"," ","o","n">>
P_repeat == <<"r","e","p","e","a","t">>
P_sayThatAgain == <<"s","a","y"," ","t","h","a","t"," ","a","g","a","i","n">>
P_complete == <<"c","o","m","p","l","e","t","e">>
P_finish == <<"f","i","n","i","s","h">>
P_done == <<"d","o","n","e">>
\* The advance cue of generateAIResponse that is not a user phrase.
P_letsMove == <<"l","e","t","'","s"," ","m","o","v","e">>

\* classify with the finish phrases tested before the repeat phrases.
mClassifyFinishBeforeRepeat(userText) ==
    LET lowerText == toLowerCase(userText) IN
    IF includes(lowerText, P_nextQuestion) \/ includes(lowerText, P_moveOn)
    THEN "advance"
    ELSE IF includes(lowerText, P_complete) \/ includes(lowerText, P_finish)
            \/ includes(lowerText, P_done)
    THEN "finish"
    ELSE IF includes(lowerText, P_repeat) \/ includes(lowerText, P_sayThatAgain)
    THEN "repeat"
    ELSE "normal"

\* The branch processUserResponse takes for userText, tested in the code's order.
classify(userText) ==
    LET lowerText == toLowerCase(userText) IN
    IF includes(lowerText, P_nextQuestion) \/ includes(lowerText, P_moveOn)
    THEN "advance"
    ELSE IF includes(lowerText, P_repeat) \/ includes(lowerText, P_sayThatAgain)
    THEN "repeat"
    ELSE IF includes(lowerText, P_complete) \/ includes(lowerText, P_finish)
            \/ includes(lowerText, P_done)
    THEN "finish"
    ELSE "normal"

\* generateAIResponse's test of the follow-up text for an advance cue.
aiSuggestsMove(aiResponse) ==
    \/ includes(toLowerCase(aiResponse), P_nextQuestion)
    \/ includes(toLowerCase(aiResponse), P_letsMove)

(***************************************************************************)
(* The inputs: what the user says (final fragments) and what the remote    *)
(* service answers.                                                        *)
(***************************************************************************)
\* Final transcript fragments the recognizer may deliver.
Fragments == <<
    <<"N","e","x","t"," ","q","u","e","s","t","i","o","n">>,
    <<"p","l","e","a","s","e"," ","R","e","p","e","a","t">>,
    <<"I"," ","a","m"," ","d","o","n","e">>,
    <<"h","e","l","l","o">>,
    <<"d","o","n","e",","," ","n","e","x","t"," ","q","u","e","s","t","i","o","n">>,
    <<>> >>
FragIds == DOMAIN Fragments

\* What the user says with commands among it, and what the recognizer makes
\* of plain speech: a word, or a final result with an empty transcript.
Commands == {f \in FragIds : Fragments[f] # <<>>}
Plain == {f \in FragIds : Fragments[f] \in {<<>>, <<"h","e","l","l","o">>}}

\* Follow-up texts the generate-ai-response endpoint may return.
AIResponses == <<
    <<"T","e","l","l"," ","m","e"," ","m","o","r","e">>,
    <<"G","o","o","d","."," ","L","e","t","'","s"," ","M","o","v","e"," ","o","n">> >>
AIIds == DOMAIN AIResponses

\* recognition.onresult: finalTranscript += transcript + ' ' for each final result,
\* and finalTranscriptBuffer += finalTranscript.  The buffer holds fragment ids.
RECURSIVE bufferText(_)
bufferText(b) ==
    IF b = <<>> THEN <<>> ELSE Fragments[Head(b)] \o <<" ">> \o bufferText(Tail(b))

\* How a request can settle: a 2xx reply, an error status with a JSON body, an
\* error status with a body that is no JSON, a rejected request.
Outcomes == {"ok", "errJson", "errText", "reject"}

(***************************************************************************)
(* The delays of the setTimeout calls, in milliseconds.                    *)
(***************************************************************************)
StartDelay == 2000          \* mount effect -> startInterview
SpeakDelay == 100           \* speakAndWait: cancel() -> speak()
GreetingSettle == 2000      \* greeting ended -> askQuestion(0)
QuestionSettle == 1500      \* question ended -> startContinuousListening
RepeatSettle == 1000        \* repeated question ended -> startContinuousListening
FollowUpSettle == 1500      \* follow-up ended -> handleNextQuestion / listening
FallbackSettle == 1500      \* fallback ended -> startContinuousListening
TransitionSettle == 1000    \* transition line ended -> askQuestion(nextQ)
ClosingSettle == 2000       \* closing line ended -> completeInterview
CompleteSettle == 2000      \* final line ended -> setCurrentView('history')
ListenDelay == 300          \* startContinuousListening -> recognition.start()
SilenceDelay == 2000        \* last final fragment -> processUserResponse

(***************************************************************************)
(* What the handlers read.  They are the closures of the first render, so  *)
(* currentQuestion and isListening are the initial values of useState.     *)
(***************************************************************************)
closureCurrentQuestion == 0

closureIsListening == FALSE

(***************************************************************************)
(* The mutable state as one record, so that a handler is an operator from  *)
(* state to state and handlers compose as the calls in the code do.        *)
(***************************************************************************)
\* The anchor of the timers set by an event that is no timer callback: later
\* than every anchor in use.  elapsed is the delay added up since the anchor.
NewAnchor ==
    LET used == {timers[i].a : i \in DOMAIN timers} IN
    IF used = {} THEN 1 ELSE 1 + CHOOSE a \in used : \A b \in used : b <= a

St ==
    [mounted |-> mounted, view |-> view, currentQuestion |-> currentQuestion,
     isListening |-> isListening, isSpeaking |-> isSpeaking,
     waitingForResponse |-> waitingForResponse, loading |-> loading,
     conversationHistory |-> conversationHistory,
     rec |-> rec, buffer |-> buffer, timers |-> timers, synth |-> synth,
     cancelled |-> cancelled, fetches |-> fetches, finals |-> finals,
     anchor |-> NewAnchor, elapsed |-> 0]

\* The timers the handler has set (their anchor is still 0) get the anchor and
\* the added-up delay of the event that ran the handler.
Anchored(seq, anchor, elapsed) ==
    [i \in DOMAIN seq |->
        IF seq[i].a = 0
        THEN [seq[i] EXCEPT !.a = anchor, !.total = elapsed + seq[i].d]
        ELSE seq[i]]

\* The anchors renumbered 1, 2, ... in their order: only the order matters.
Renumbered(seq) ==
    LET used == {seq[i].a : i \in DOMAIN seq} IN
    [i \in DOMAIN seq |->
        [seq[i] EXCEPT !.a = Cardinality({b \in used : b <= seq[i].a})]]

\* The handler's result becomes the next state.
Commit(s) ==
    \E t \in {s} :
        /\ mounted' = t.mounted
        /\ view' = t.view
        /\ currentQuestion' = t.currentQuestion
        /\ isListening' = t.isListening
        /\ isSpeaking' = t.isSpeaking
        /\ waitingForResponse' = t.waitingForResponse
        /\ loading' = t.loading
        /\ conversationHistory' = t.conversationHistory
        /\ rec' = t.rec
        /\ buffer' = t.buffer
        /\ timers' = Renumbered(Anchored(t.timers, t.anchor, t.elapsed))
        /\ synth' = t.synth
        /\ cancelled' = t.cancelled
        /\ fetches' = t.fetches
        /\ finals' = t.finals
        /\ UNCHANGED <<numQ, supported, vocabulary, sample, branch,
                       setupScreen, historyScreen>>

\* React drops the state updates of a component that is no longer mounted.
setCurrentQuestion(s, v) == IF mounted THEN [s EXCEPT !.currentQuestion = v] ELSE s
setIsListening(s, v) == IF mounted THEN [s EXCEPT !.isListening = v] ELSE s
setIsSpeaking(s, v) == IF mounted THEN [s EXCEPT !.isSpeaking = v] ELSE s
setWaitingForResponse(s, v) == IF mounted THEN [s EXCEPT !.waitingForResponse = v] ELSE s
setLoading(s, v) == IF mounted THEN [s EXCEPT !.loading = v] ELSE s

\* setConversationHistory(prev => [...prev, record]).  Of a record the type and
\* the question index (index, questionIndex) are kept.
Record(type, q) == [type |-> type, q |-> q]

\* setConversationHistory putting the record in front: prev => [record, ...prev].
mAddToHistoryInFront(s, record) ==
    IF mounted THEN [s EXCEPT !.conversationHistory = <<record>> \o @] ELSE s

addToHistory(s, record) ==
    IF mounted THEN [s EXCEPT !.conversationHistory = Append(@, record)] ELSE s

(***************************************************************************)
(* Timers.  k names the callback, d is the delay, c and q its arguments;    *)
(* a is the anchor and total the delay added up since the anchor.          *)
(***************************************************************************)
Timer(k, d, c, q) == [k |-> k, d |-> d, c |-> c, q |-> q, a |-> 0, total |-> 0]

setTimeout(s, tm) == [s EXCEPT !.timers = Append(@, tm)]

RemoveAt(seq, i) == SubSeq(seq, 1, i - 1) \o SubSeq(seq, i + 1, Len(seq))

\* Timer j is known to fire before timer i.
FiresBefore(j, i) ==
    \/ j < i /\ timers[j].d <= timers[i].d
    \/ timers[j].a <= timers[i].a /\ timers[j].total < timers[i].total
    \/ timers[j].a <= timers[i].a /\ timers[j].total = timers[i].total /\ j < i

\* Timer i can be the next to fire.
Due(i) == \A j \in DOMAIN timers : j # i => ~FiresBefore(j, i)

\* clearTimeout(silenceTimerRef.current)
clearSilenceTimer(s) ==
    [s EXCEPT !.timers = SelectSeq(@, LAMBDA tm : tm.k # "silence")]

(***************************************************************************)
(* The platform objects: SpeechRecognition and speechSynthesis.            *)
(***************************************************************************)
\* recognition.stop(): a running recognizer is asked to end; it may still
\* return a result for the audio it has, and then fires onend.
recognitionStop(s) ==
    [s EXCEPT !.rec = IF @ = "active" THEN "stopping"
                      ELSE IF @ = "starting" THEN "ending"
                      ELSE @]

\* recognition.start(): throws InvalidStateError unless the recognizer is idle;
\* the caller catches it.
recognitionStart(s) == [s EXCEPT !.rec = IF @ = "idle" THEN "starting" ELSE @]

\* An utterance: c names the continuation (onComplete) it was given, q is the
\* question index or the follow-up it speaks.
Utterance(c, q) == [c |-> c, q |-> q, started |-> FALSE]

RECURSIVE SeqToBag(_)
SeqToBag(seq) ==
    IF seq = <<>> THEN EmptyBag ELSE SetToBag({Head(seq)}) (+) SeqToBag(Tail(seq))

\* speechSynthesis.cancel(): every utterance leaves the queue.
synthCancel(s) ==
    [s EXCEPT !.cancelled = @ (+) SeqToBag(s.synth), !.synth = <<>>]

\* speechSynthesis.speak(utterance)
synthSpeak(s, c, q) == [s EXCEPT !.synth = Append(@, Utterance(c, q))]

(***************************************************************************)
(* The functions of the component.                                         *)
(***************************************************************************)
speakAndWait(s, c, q) == setTimeout(synthCancel(s), Timer("speak", SpeakDelay, c, q))

cleanupSpeech(s) == synthCancel(IF supported THEN recognitionStop(s) ELSE s)

stopListening(s) ==
    LET s1 == clearSilenceTimer(s) IN
    IF supported THEN setIsListening(recognitionStop(s1), FALSE) ELSE s1

startContinuousListening(s) ==
    IF supported
    THEN setTimeout(IF closureIsListening THEN recognitionStop(s) ELSE s,
                    Timer("recognitionStart", ListenDelay, "", 0))
    ELSE s

startInterview(s) == speakAndWait(s, "greeting", 0)

\* askQuestion starting the capture without waiting for the playback.
mAskQuestionListensAtOnce(s, questionIndex) ==
    startContinuousListening(
        speakAndWait(addToHistory(s, Record("question", questionIndex)),
                     "question", questionIndex))

askQuestion(s, questionIndex) ==
    speakAndWait(addToHistory(s, Record("question", questionIndex)),
                 "question", questionIndex)

\* A request and what its caller does once it has settled.  Of the body, the
\* question number is kept; no continuation reads the answer text again.
Request(kind, then) == [kind |-> kind, then |-> then, q |-> closureCurrentQuestion]

fetch(s, r) == [s EXCEPT !.fetches = @ (+) SetToBag({r})]

\* saveCurrentAnswer up to its await; `then` is what its caller does after it.
saveCurrentAnswer(s, then) == fetch(s, Request("save", then))

\* generateAIResponse up to its await.
generateAIResponse(s) == fetch(s, Request("generate", "none"))

\* completeInterview up to its await.
completeInterview(s) ==
    fetch(stopListening(setLoading(s, TRUE)), Request("complete", "none"))

\* handleNextQuestion without its test of the last index.
mHandleNextNoLastTest(s) ==
    LET nextQ == closureCurrentQuestion + 1 IN
    speakAndWait(setCurrentQuestion(s, nextQ), "transition", nextQ)

handleNextQuestion(s) ==
    IF closureCurrentQuestion < numQ - 1
    THEN LET nextQ == closureCurrentQuestion + 1 IN
         speakAndWait(setCurrentQuestion(s, nextQ), "transition", nextQ)
    ELSE speakAndWait(s, "closing", 0)

\* processUserResponse without its test of the finish phrases.
mProcessNoFinishCommand(s, userText) ==
    LET s1 == setWaitingForResponse(stopListening(s), TRUE)
        command == classify(userText)
    IN  CASE command = "advance" -> handleNextQuestion(s1)
          [] command = "repeat" -> speakAndWait(s1, "repeat", closureCurrentQuestion)
          [] OTHER -> saveCurrentAnswer(s1, "generate")

\* processUserResponse requesting the follow-up without awaiting the save.
mProcessNoAwaitSave(s, userText) ==
    LET s1 == setWaitingForResponse(stopListening(s), TRUE)
        command == classify(userText)
    IN  CASE command = "advance" -> handleNextQuestion(s1)
          [] command = "repeat" -> speakAndWait(s1, "repeat", closureCurrentQuestion)
          [] command = "finish" -> saveCurrentAnswer(s1, "complete")
          [] OTHER -> generateAIResponse(saveCurrentAnswer(s1, "generate"))

\* processUserResponse up to its first await (or its return).
processUserResponse(s, userText) ==
    LET s1 == setWaitingForResponse(stopListening(s), TRUE)
        command == classify(userText)
    IN  CASE command = "advance" -> handleNextQuestion(s1)
          [] command = "repeat" -> speakAndWait(s1, "repeat", closureCurrentQuestion)
          [] command = "finish" -> saveCurrentAnswer(s1, "complete")
          [] OTHER -> saveCurrentAnswer(s1, "generate")

\* The fallback continuation without its setTimeout.
mFallbackNoListen(s) == setWaitingForResponse(s, FALSE)

\* The continuation of the fallback line (generateAIResponse's catch).
fallbackComplete(s) ==
    setTimeout(setWaitingForResponse(s, FALSE),
               Timer("startContinuousListening", FallbackSettle, "", 0))

\* The onComplete continuation speakAndWait was given.
onComplete(s, c, q) ==
    CASE c = "greeting" ->
            setTimeout(s, Timer("askQuestion", GreetingSettle, "", 0))
      [] c = "question" ->
            setTimeout(s, Timer("startContinuousListening", QuestionSettle, "", 0))
      [] c = "repeat" ->
            setTimeout(setWaitingForResponse(s, FALSE),
                       Timer("startContinuousListening", RepeatSettle, "", 0))
      [] c = "followup" ->
            IF aiSuggestsMove(AIResponses[q])
            THEN setTimeout(setWaitingForResponse(s, FALSE),
                            Timer("handleNextQuestion", FollowUpSettle, "", 0))
            ELSE setTimeout(setWaitingForResponse(s, FALSE),
                            Timer("startContinuousListening", FollowUpSettle, "", 0))
      [] c = "fallback" -> fallbackComplete(s)
      [] c = "transition" ->
            setTimeout(s, Timer("askQuestion", TransitionSettle, "", q))
      [] c = "closing" ->
            setTimeout(s, Timer("completeInterview", ClosingSettle, "", 0))
      [] OTHER ->
            setTimeout(s, Timer("setCurrentView", CompleteSettle, "", 0))

\* utterance.onend and utterance.onerror have the same body.
utteranceDone(s, c, q) == onComplete(setIsSpeaking(s, FALSE), c, q)

\* The component's teardown: the cleanup of the mount effect.
unmount(s) == [clearSilenceTimer(cleanupSpeech(s)) EXCEPT !.mounted = FALSE]

(***************************************************************************)
(* The other screens, while they are not shown.                            *)
(***************************************************************************)
\* InterviewSetup: useState of lines 7-11, and the attempt of startInterview:
\* pc is the request it awaits, attempts and onStartCalls count the calls.
SetupOff ==
    [mounted |-> FALSE, mode |-> "none", role |-> <<>>, resume |-> 0,
     loading |-> FALSE, error |-> "", pc |-> "idle", attempts |-> 0,
     onStartCalls |-> 0]

\* History: the list (loading, error, empty or shown), selectedInterview and
\* interviewDetails (the interview's id, 0 for null), the detail requests under
\* way in the order of the clicks, the clicks made, and of the last click the
\* interview and how its request settled.
HistoryOff ==
    [mounted |-> FALSE, list |-> "loading", selectedInterview |-> 0,
     interviewDetails |-> 0, requests |-> <<>>, clicks |-> 0,
     latestId |-> 0, latestOutcome |-> "none"]

(***************************************************************************)
(* The state once the mount effect has run: initializeSpeechRecognition,   *)
(* and the start timer when there are questions.                           *)
(***************************************************************************)
Mounted ==
    /\ numQ \in 0..MaxQuestions
    /\ supported \in BOOLEAN
    /\ mounted = TRUE
    /\ view = "interview"
    /\ currentQuestion = 0
    /\ isListening = FALSE
    /\ isSpeaking = FALSE
    /\ waitingForResponse = FALSE
    /\ loading = FALSE
    /\ conversationHistory = <<>>
    /\ rec = "idle"
    /\ buffer = <<>>
    /\ timers = IF numQ > 0
                THEN <<[Timer("startInterview", StartDelay, "", 0)
                            EXCEPT !.a = 1, !.total = StartDelay]>>
                ELSE <<>>
    /\ synth = <<>>
    /\ cancelled = EmptyBag
    /\ fetches = EmptyBag
    /\ setupScreen = SetupOff
    /\ historyScreen = HistoryOff

Init ==
    /\ Mounted /\ finals = MaxFinals /\ vocabulary = Commands
    /\ sample = <<>> /\ branch = "none"

\* Runs in which the user says a single final fragment.
InitOneTurn ==
    /\ Mounted /\ finals = OneTurnFinals /\ vocabulary = Commands
    /\ sample = <<>> /\ branch = "none"

\* Runs in which the user gives plain answers, in several fragments, to a
\* single question.
InitListen ==
    /\ Mounted /\ numQ = 1 /\ supported
    /\ finals = ListenFinals /\ vocabulary = Plain
    /\ sample = <<>> /\ branch = "none"

\* The state with timer i taken off the list: what its callback starts from.
Fired(i) ==
    [St EXCEPT !.timers = RemoveAt(timers, i),
               !.anchor = timers[i].a, !.elapsed = timers[i].total]

(***************************************************************************)
(* Timer callbacks.                                                        *)
(***************************************************************************)
StartTimer ==
    \E i \in DOMAIN timers :
        /\ timers[i].k = "startInterview" /\ Due(i)
        /\ Commit(startInterview(Fired(i)))

\* The body of speakAndWait's timer: the utterance is created and queued.
SpeakTimer ==
    \E i \in DOMAIN timers :
        /\ timers[i].k = "speak" /\ Due(i)
        /\ Commit(synthSpeak(Fired(i), timers[i].c, timers[i].q))

AskTimer ==
    \E i \in DOMAIN timers :
        /\ timers[i].k = "askQuestion" /\ Due(i)
        /\ Commit(askQuestion(Fired(i), timers[i].q))

ListenTimer ==
    \E i \in DOMAIN timers :
        /\ timers[i].k = "startContinuousListening" /\ Due(i)
        /\ Commit(startContinuousListening(Fired(i)))

RecognitionStartTimer ==
    \E i \in DOMAIN timers :
        /\ timers[i].k = "recognitionStart" /\ Due(i)
        /\ Commit(recognitionStart(Fired(i)))

NextTimer ==
    \E i \in DOMAIN timers :
        /\ timers[i].k = "handleNextQuestion" /\ Due(i)
        /\ Commit(handleNextQuestion(Fired(i)))

CompleteTimer ==
    \E i \in DOMAIN timers :
        /\ timers[i].k = "completeInterview" /\ Due(i)
        /\ Commit(completeInterview(Fired(i)))

\* setCurrentView('history'): App shows History, which unmounts the Interview.
ViewTimer ==
    \E i \in DOMAIN timers :
        /\ timers[i].k = "setCurrentView" /\ Due(i)
        /\ LET s == [Fired(i) EXCEPT !.view = "history"] IN
           Commit(IF mounted THEN unmount(s) ELSE s)

\* The silence timer without its test of the trimmed buffer.
mSilenceTimerNoTest ==
    \E i \in DOMAIN timers :
        /\ timers[i].k = "silence" /\ Due(i)
        /\ \E userText \in {trim(bufferText(buffer))} :
                Commit([processUserResponse(Fired(i), userText) EXCEPT !.buffer = <<>>])

\* The silence timer set by recognition.onresult.
SilenceTimer ==
    \E i \in DOMAIN timers :
        /\ timers[i].k = "silence" /\ Due(i)
        /\ \E userText \in {trim(bufferText(buffer))} :
                Commit(IF userText # <<>>
                       THEN [processUserResponse(Fired(i), userText)
                                EXCEPT !.buffer = <<>>]
                       ELSE Fired(i))

(***************************************************************************)
(* Speech synthesis events.                                                *)
(***************************************************************************)
UtteranceStart ==
    /\ synth # <<>> /\ ~Head(synth).started
    /\ Commit(setIsSpeaking([St EXCEPT !.synth[1].started = TRUE], TRUE))

UtteranceEnd ==
    /\ synth # <<>> /\ Head(synth).started
    /\ Commit(utteranceDone([St EXCEPT !.synth = Tail(synth)],
                            Head(synth).c, Head(synth).q))

\* A synthesis failure of the utterance at the head of the queue.
UtteranceError ==
    /\ synth # <<>>
    /\ Commit(utteranceDone([St EXCEPT !.synth = Tail(synth)],
                            Head(synth).c, Head(synth).q))

\* cancel() removed utterance u: the error event the Web Speech API gives a
\* cancelled utterance ('interrupted' or 'canceled') reaches utterance.onerror.
CancelledError(u) ==
    /\ BagIn(u, cancelled)
    /\ Commit(utteranceDone([St EXCEPT !.cancelled = @ (-) SetToBag({u})], u.c, u.q))

CancelledNotified == \E u \in BagToSet(cancelled) : CancelledError(u)

(***************************************************************************)
(* Speech recognition events.                                              *)
(***************************************************************************)
RecognitionStarted ==
    /\ rec = "starting"
    /\ Commit(setIsListening([St EXCEPT !.rec = "active"], TRUE))

\* recognition.onresult without its clearTimeout.
mRecognitionFinalKeepsTimer ==
    /\ rec \in {"active", "stopping"}
    /\ finals > 0
    /\ \E f \in vocabulary :
        Commit(setTimeout([St EXCEPT !.buffer = Append(@, f), !.finals = @ - 1],
                          Timer("silence", SilenceDelay, "", 0)))

\* recognition.onresult with one final result: the buffer grows and the silence
\* timer restarts.  A stopping recognizer still returns what it has heard.
RecognitionFinal ==
    /\ rec \in {"active", "stopping"}
    /\ finals > 0
    /\ \E f \in vocabulary :
        Commit(setTimeout(clearSilenceTimer([St EXCEPT !.buffer = Append(@, f),
                                                       !.finals = @ - 1]),
                          Timer("silence", SilenceDelay, "", 0)))

\* recognition.onresult with interim results only: the transcript shown changes,
\* which is no part of this state.
RecognitionInterim ==
    /\ rec \in {"active", "stopping"}
    /\ Commit(St)

\* recognition.onerror (an alert when the error is 'network'); the recognizer
\* ends after it.
RecognitionError ==
    /\ rec \in {"starting", "active", "stopping"}
    /\ Commit([St EXCEPT !.rec = "ending"])

\* recognition.onend: after stop(), after an error, or on the recognizer's own.
RecognitionEnd ==
    /\ rec \in {"active", "stopping", "ending"}
    /\ Commit(setIsListening([St EXCEPT !.rec = "idle"], FALSE))

(***************************************************************************)
(* Replies of the remote service: the code after each await.               *)
(***************************************************************************)
Settled(r) == [St EXCEPT !.fetches = @ (-) SetToBag({r})]

\* saveCurrentAnswer logging the answer also when the request was rejected.
mSaveSettledLogsAlways(s, r, out) == addToHistory(s, Record("answer", r.q))

\* saveCurrentAnswer after its fetch: the answer is logged when the request
\* resolved, whatever its status, and a rejection is swallowed.
saveSettled(s, r, out) ==
    IF out = "reject" THEN s ELSE addToHistory(s, Record("answer", r.q))

\* The reply to a save request, and what processUserResponse does next.
SaveReply(r, out) ==
    /\ BagIn(r, fetches) /\ r.kind = "save"
    /\ Commit(IF r.then = "complete"
              THEN completeInterview(saveSettled(Settled(r), r, out))
              ELSE generateAIResponse(saveSettled(Settled(r), r, out)))

SaveSettled == \E r \in BagToSet(fetches) : \E out \in Outcomes : SaveReply(r, out)

\* generateAIResponse after its fetch: the follow-up ai, or the fallback line.
GenerateReply(r, out, ai) ==
    /\ BagIn(r, fetches) /\ r.kind = "generate"
    /\ Commit(IF out = "ok"
              THEN speakAndWait(addToHistory(Settled(r), Record("ai_response", r.q)),
                                "followup", ai)
              ELSE speakAndWait(Settled(r), "fallback", 0))

GenerateSettled ==
    \E r \in BagToSet(fetches) : \E out \in Outcomes : \E ai \in AIIds :
        GenerateReply(r, out, ai)

\* completeInterview after its fetch: response.json() is all that is tested.
CompleteReply(r, out) ==
    /\ BagIn(r, fetches) /\ r.kind = "complete"
    /\ Commit(IF out \in {"ok", "errJson"} THEN speakAndWait(Settled(r), "complete", 0)
              ELSE setLoading(Settled(r), FALSE))

CompleteSettled ==
    \E r \in BagToSet(fetches) : \E out \in Outcomes : CompleteReply(r, out)

(***************************************************************************)
(* The user leaves the screen (Home, History, Logout in App's navbar).     *)
(***************************************************************************)
Unmount ==
    /\ mounted
    /\ Commit(unmount([St EXCEPT !.view = "home"]))

Next ==
    \/ StartTimer \/ SpeakTimer \/ AskTimer \/ ListenTimer \/ RecognitionStartTimer
    \/ NextTimer \/ CompleteTimer \/ ViewTimer \/ SilenceTimer
    \/ UtteranceStart \/ UtteranceEnd \/ UtteranceError \/ CancelledNotified
    \/ RecognitionStarted \/ RecognitionFinal \/ RecognitionInterim
    \/ RecognitionError \/ RecognitionEnd
    \/ SaveSettled \/ GenerateSettled \/ CompleteSettled
    \/ Unmount

Spec == Init /\ [][Next]_vars

OneTurnSpec == InitOneTurn /\ [][Next]_vars

ListenSpec == InitListen /\ [][Next]_vars

\* The event loop runs a timer that is due; an utterance in the queue ends or
\* fails, and a cancelled one gets its error event.
Fairness ==
    /\ WF_vars(StartTimer) /\ WF_vars(SpeakTimer) /\ WF_vars(AskTimer)
    /\ WF_vars(ListenTimer) /\ WF_vars(RecognitionStartTimer) /\ WF_vars(NextTimer)
    /\ WF_vars(CompleteTimer) /\ WF_vars(ViewTimer) /\ WF_vars(SilenceTimer)
    /\ WF_vars(UtteranceStart) /\ WF_vars(UtteranceEnd \/ UtteranceError)
    /\ WF_vars(CancelledNotified)

FairOneTurnSpec == InitOneTurn /\ [][Next]_vars /\ Fairness

(***************************************************************************)
(* The classification of processUserResponse on its own: sample texts      *)
(* made of up to MaxParts pieces, joined as they are.                      *)
(***************************************************************************)
Pieces == <<
    <<"n","e","x","t"," ","q","u","e","s","t","i","o","n">>,
    <<"M","o","v","e"," ","O","n">>,
    <<"R","E","P","E","A","T">>,
    <<"s","a","y"," ","t","h","a","t"," ","a","g","a","i","n">>,
    <<"c","o","m","p","l","e","t","e">>,
    <<"F","i","n","i","s","h">>,
    <<"d","o","n","e">>,
    <<"h","e","l","l","o">>,
    <<" ">>,
    <<"n","e","x","t">>,
    <<"Q","u","e","s","t","i","o","n">>,
    <<"u","n">>,
    <<"r","e">>,
    <<"p","e","a","t">> >>

Samples == UNION {[1..n -> DOMAIN Pieces] : n \in 1..MaxParts}

RECURSIVE sampleText(_)
sampleText(ps) == IF ps = <<>> THEN <<>> ELSE Pieces[Head(ps)] \o sampleText(Tail(ps))

InitClassify ==
    /\ Mounted /\ numQ = 0 /\ supported
    /\ finals = 0 /\ vocabulary = {}
    /\ sample \in Samples
    /\ branch = "none"

\* processUserResponse's command tests applied to the sample.
ClassifySample ==
    /\ branch = "none"
    /\ branch' = classify(sampleText(sample))
    /\ UNCHANGED <<numQ, supported, mounted, view, currentQuestion, isListening,
                   isSpeaking, waitingForResponse, loading, conversationHistory,
                   rec, buffer, timers,
                   synth, cancelled, fetches, finals, vocabulary, sample,
                   setupScreen, historyScreen>>

ClassifySpec == InitClassify /\ [][ClassifySample]_vars

(***************************************************************************)
(* Vocabulary of the properties.                                           *)
(***************************************************************************)
\* The text a firing silence timer would hand to processUserResponse.
TurnText == trim(bufferText(buffer))

\* A step in which the silence timer finalizes a turn: processUserResponse runs.
Finalizes == TurnText # <<>> /\ SilenceTimer

\* p occurs in t, letters compared without regard to case.
SameLetter(a, b) == a = b \/ \E k \in DOMAIN Upper : {a, b} = {Upper[k], Lower[k]}
Occurs(t, p) ==
    \E i \in 1..Len(t) :
        /\ i + Len(p) - 1 <= Len(t)
        /\ \A j \in 1..Len(p) : SameLetter(t[i + j - 1], p[j])

HasAdvancePhrase(t) == Occurs(t, P_nextQuestion) \/ Occurs(t, P_moveOn)
HasRepeatPhrase(t) == Occurs(t, P_repeat) \/ Occurs(t, P_sayThatAgain)
HasFinishPhrase(t) == Occurs(t, P_complete) \/ Occurs(t, P_finish) \/ Occurs(t, P_done)

Pending(k) == \E i \in DOMAIN timers : timers[i].k = k

\* The callbacks of a timer list, without the anchors.
Callbacks(seq) == [i \in DOMAIN seq |-> <<seq[i].k, seq[i].c, seq[i].q>>]

\* The step sets no timer (it may clear the silence timer).
SetsNoTimer ==
    Callbacks(timers') = Callbacks(SelectSeq(timers, LAMBDA tm : tm.k # "silence"))

\* The step issues request r and no other.
Issues(r) == fetches' = fetches (+) SetToBag({r})

\* The step issues no request.
IssuesNothing == \A r \in BagToSet(fetches') : CopiesIn(r, fetches') <= CopiesIn(r, fetches)

\* The pending speakAndWait timers that will speak line c.
Speaking(seq, c) == SelectSeq(seq, LAMBDA tm : tm.k = "speak" /\ tm.c = c)

\* Something started by an earlier turn is still under way: a request not
\* settled, an utterance queued, playing or cancelled without its event yet,
\* or a timer other than the silence timer.
TurnInProgress ==
    \/ fetches # EmptyBag
    \/ synth # <<>>
    \/ cancelled # EmptyBag
    \/ \E i \in DOMAIN timers : timers[i].k # "silence"

(***************************************************************************)
(* C1.  isListening and isSpeaking are never both true.                    *)
(* The code breaks it: a final result that arrives after stop() starts a   *)
(* second turn beside the first (see C10), and one turn's utterance plays  *)
(* while the other turn's chain restarts recognition.                      *)
(***************************************************************************)
C1_NeverListeningAndSpeaking == ~(isListening /\ isSpeaking)

(***************************************************************************)
(* C2.  When the turn finalized at question i, not the last, holds an      *)
(* advance phrase, currentQuestion becomes i+1, the transition to question *)
(* i+1 is spoken and no request is issued.                                 *)
(* Stated for a turn finalized while the recognizer is running and nothing  *)
(* else is under way.                                                      *)
(* The code breaks it for i >= 1: handleNextQuestion reads the             *)
(* currentQuestion of the first render and always goes to question 1.      *)
(***************************************************************************)
C2_AdvanceAsksNextQuestion ==
    [][(Finalizes /\ mounted /\ rec = "active" /\ ~TurnInProgress
            /\ HasAdvancePhrase(TurnText) /\ currentQuestion < numQ - 1)
        => /\ currentQuestion' = currentQuestion + 1
           /\ \E i \in DOMAIN timers' :
                /\ timers'[i].k = "speak" /\ timers'[i].c = "transition"
                /\ timers'[i].q = currentQuestion + 1
           /\ fetches' = fetches]_vars

(***************************************************************************)
(* C3.  As stated: every finalized text that holds a finish phrase takes   *)
(* the completion path (the answer is saved, then completeInterview), at   *)
(* any question index.  False for a text that also holds an advance or a   *)
(* repeat phrase, which is tested first.                                   *)
(***************************************************************************)
C3_FinishPhraseCompletes ==
    [][(Finalizes /\ HasFinishPhrase(TurnText))
        => /\ Issues(Request("save", "complete"))
           /\ ~\E i \in DOMAIN timers' : timers'[i].k = "speak"]_vars

(***************************************************************************)
(* C3, amended.  A finalized text that holds a finish phrase and neither   *)
(* an advance nor a repeat phrase takes the completion path at any         *)
(* question index: processUserResponse issues the submit-answer request    *)
(* and nothing else, and when that request settles, however it settles,    *)
(* completeInterview runs (the complete request is issued); the turn       *)
(* speaks no line, asks no question and requests no follow-up.             *)
(***************************************************************************)
C3_FinishOnlyCompletes ==
    [][/\ (Finalizes /\ HasFinishPhrase(TurnText) /\ ~HasAdvancePhrase(TurnText)
                /\ ~HasRepeatPhrase(TurnText))
            => /\ Issues(Request("save", "complete"))
               /\ SetsNoTimer
               /\ synth' = synth
               /\ currentQuestion' = currentQuestion
       /\ \A out \in Outcomes :
            SaveReply(Request("save", "complete"), out)
            => /\ fetches' = (fetches (-) SetToBag({Request("save", "complete")}))
                                (+) SetToBag({Request("complete", "none")})
               /\ SetsNoTimer
               /\ synth' = synth
               /\ currentQuestion' = currentQuestion]_vars

\* A finish turn has been finalized at a middle question: its answer is
\* being saved.
C3_Witness ==
    /\ BagIn(Request("save", "complete"), fetches)
    /\ waitingForResponse
    /\ buffer = <<>>
    /\ currentQuestion = 1 /\ numQ = 3

(***************************************************************************)
(* C4.  The branch taken is decided by case-insensitive substring tests in *)
(* the order advance, repeat, finish, normal: advance iff an advance       *)
(* phrase occurs; repeat iff a repeat phrase occurs and no advance phrase; *)
(* finish iff a finish phrase occurs and neither of the others; normal iff *)
(* none occurs.                                                            *)
(***************************************************************************)
C4_FirstMatchOrder ==
    branch # "none" =>
        LET t == sampleText(sample)
            adv == HasAdvancePhrase(t)
            rpt == HasRepeatPhrase(t)
            fin == HasFinishPhrase(t)
        IN  /\ branch \in {"advance", "repeat", "finish", "normal"}
            /\ (branch = "advance") = adv
            /\ (branch = "repeat") = (~adv /\ rpt)
            /\ (branch = "finish") = (~adv /\ ~rpt /\ fin)
            /\ (branch = "normal") = (~adv /\ ~rpt /\ ~fin)

\* A text with a repeat and a finish phrase, in upper case, was classified.
C4_Witness ==
    /\ branch = "repeat"
    /\ HasFinishPhrase(sampleText(sample))
    /\ sampleText(sample) # toLowerCase(sampleText(sample))

(***************************************************************************)
(* C5.  When the generate-ai-response request fails (it rejects, or the    *)
(* reply is not ok), the fallback line is spoken (speakAndWait is called   *)
(* with it and nothing else is started); when its playback ends or errors  *)
(* the screen leaves "thinking" and startContinuousListening is scheduled; *)
(* and a failure always leads to recognition.start() being scheduled: the  *)
(* session does not stay in Thinking.                                      *)
(***************************************************************************)
C5_FallbackThenListen ==
    /\ [][\A r \in BagToSet(fetches) : \A out \in Outcomes \ {"ok"} : \A ai \in AIIds :
            GenerateReply(r, out, ai)
            => /\ Len(Speaking(timers', "fallback")) = Len(Speaking(timers, "fallback")) + 1
               /\ Len(timers') = Len(timers) + 1
               /\ IssuesNothing]_vars
    /\ [][(synth # <<>> /\ Head(synth).c = "fallback" /\ (UtteranceEnd \/ UtteranceError))
            => /\ (mounted => ~waitingForResponse')
               /\ \E i \in DOMAIN timers' :
                    /\ timers'[i].k = "startContinuousListening"
                    /\ timers'[i].d = FallbackSettle]_vars
    /\ (supported /\ Speaking(timers, "fallback") # <<>>) ~> Pending("recognitionStart")

\* The fallback line is being spoken.
C5_Witness == synth # <<>> /\ Head(synth).c = "fallback" /\ Head(synth).started

(***************************************************************************)
(* C6.  When the complete request fails (it rejects, or the reply is not   *)
(* ok), the closing line "Interview complete!" is not spoken, no request   *)
(* is issued in its place and the screen leaves the loading state.         *)
(* The code breaks it: completeInterview never tests response.ok, so an    *)
(* error reply with a JSON body is taken for success.                      *)
(***************************************************************************)
C6_CompleteFailureStops ==
    [][\A r \in BagToSet(fetches) : \A out \in Outcomes \ {"ok"} :
            CompleteReply(r, out)
            => /\ Len(Speaking(timers', "complete")) <= Len(Speaking(timers, "complete"))
               /\ IssuesNothing
               /\ (mounted => ~loading')]_vars

(***************************************************************************)
(* C7.  The unmount cancels the silence timer, stops capture and empties   *)
(* the synthesizer's queue, and once the screen is unmounted nothing of    *)
(* the session happens: no utterance is queued, recognition is not         *)
(* started, no silence timer is set, no request is issued and the view is  *)
(* not changed.                                                            *)
(* The code breaks it: the cleanup clears the silence timer only; the      *)
(* other timers, the pending requests' continuations and the cancelled     *)
(* utterances' onerror handlers still run.                                 *)
(***************************************************************************)
C7_NothingAfterUnmount ==
    [][/\ (mounted /\ ~mounted')
            => /\ ~\E i \in DOMAIN timers' : timers'[i].k = "silence"
               /\ synth' = <<>>
               /\ rec' \notin {"starting", "active"}
       /\ ~mounted
            => /\ Len(synth') <= Len(synth)
               /\ (rec' = "starting" => rec = "starting")
               /\ Len(timers') <= Len(timers)
               /\ IssuesNothing
               /\ view' = view]_vars

(***************************************************************************)
(* C8.  At most one utterance is in the synthesizer's queue.               *)
(* The code breaks it: speakAndWait cancels at once but speaks 100 ms      *)
(* later, so of two calls less than 100 ms apart the second cancels        *)
(* nothing and both utterances are queued.  Two calls that close need two  *)
(* turns under way at once (see C10).                                      *)
(***************************************************************************)
C8_OneUtteranceInFlight == Len(synth) <= 1

(***************************************************************************)
(* C9.  The continuation of a speakAndWait call whose utterance was        *)
(* removed by a later cancel() does not run: when the event of a cancelled *)
(* utterance is delivered, no timer is set and the screen's state is left  *)
(* alone.                                                                  *)
(* The code breaks it: a cancelled utterance gets an error event, and      *)
(* utterance.onerror calls onComplete.                                     *)
(***************************************************************************)
C9_PreemptedNeverCompletes ==
    [][(\E u \in BagToSet(cancelled) : CopiesIn(u, cancelled') < CopiesIn(u, cancelled))
        => /\ Callbacks(timers') = Callbacks(timers)
           /\ waitingForResponse' = waitingForResponse]_vars

(***************************************************************************)
(* C10.  processUserResponse is not entered while something an earlier     *)
(* turn started is still under way.                                        *)
(* The code breaks it: recognition.stop() lets the recognizer deliver one  *)
(* more final result, onresult sets the silence timer again, and two       *)
(* seconds later a second processUserResponse runs beside the first.       *)
(***************************************************************************)
C10_OneTurnAtATime == [][Finalizes => ~TurnInProgress]_vars

\* Nothing of the session is pending: no timer, no utterance, no request, and
\* the recognizer is not running.  No handler of the screen can run any more.
NothingPending ==
    /\ timers = <<>>
    /\ synth = <<>> /\ cancelled = EmptyBag
    /\ fetches = EmptyBag
    /\ rec = "idle"

(***************************************************************************)
(* C11.  After a driver failure the dialogue has a next step: a mounted    *)
(* screen with questions, which is not showing the loading notice, is      *)
(* never left with nothing pending.                                        *)
(* The code breaks it: recognition.onerror only logs and onend only sets   *)
(* isListening to false, so after a recognition error or an end of its own *)
(* nothing restarts capture; without platform support                      *)
(* startContinuousListening does nothing after the first question.         *)
(***************************************************************************)
C11_AlwaysANextStep == ~(mounted /\ numQ > 0 /\ ~loading /\ NothingPending)

(***************************************************************************)
(* C12.  When the silence timer expires and the buffer, trimmed, is empty, *)
(* processUserResponse is not called: the recognizer and isListening are   *)
(* left as they are, nothing is spoken, no timer is set, no request is     *)
(* issued and the screen does not enter "thinking".                        *)
(***************************************************************************)
C12_EmptyExpiryDoesNothing ==
    [][(TurnText = <<>> /\ SilenceTimer)
        => /\ rec' = rec /\ isListening' = isListening
           /\ waitingForResponse' = waitingForResponse
           /\ fetches' = fetches
           /\ synth' = synth /\ cancelled' = cancelled
           /\ SetsNoTimer]_vars

\* The silence timer has expired on a buffer of white space, and the screen
\* still listens.
C12_Witness ==
    /\ mounted /\ rec = "active" /\ isListening
    /\ buffer # <<>> /\ TurnText = <<>>
    /\ ~Pending("silence")

(***************************************************************************)
(* C13.  The text handed to processUserResponse is the concatenation, in   *)
(* arrival order, of the final fragments of one run (each less than the    *)
(* silence duration after the one before): every final fragment is         *)
(* appended to the buffer; a fragment that arrives when no silence timer   *)
(* is pending starts a run and finds no text in the buffer; and the buffer *)
(* is empty once its text has been handed over.                            *)
(* The code breaks it: stopListening and the unmount clear the silence     *)
(* timer and leave the buffer as it is (see C15), so the fragments of a    *)
(* discarded run are handed over with the next run.                        *)
(***************************************************************************)
C13_TurnTextIsTheRun ==
    [][/\ Len(buffer') > Len(buffer)
            => /\ Len(buffer') = Len(buffer) + 1
               /\ SubSeq(buffer', 1, Len(buffer)) = buffer
               /\ (~Pending("silence") => TurnText = <<>>)
       /\ Finalizes => buffer' = <<>>]_vars

\* The pending silence timers, and where the (first) one stands in the list.
SilenceTimers(seq) == SelectSeq(seq, LAMBDA tm : tm.k = "silence")
SilenceAt(seq) == CHOOSE i \in DOMAIN seq : seq[i].k = "silence"

(***************************************************************************)
(* C14.  At most one silence timer is pending.  A final fragment restarts  *)
(* it: after the fragment the silence timer is the newest timer, set for   *)
(* the silence duration at that event.  Nothing else sets or restarts it:  *)
(* in a step that adds no fragment no silence timer appears and a pending  *)
(* one keeps its place among the timers; a result with interim text only   *)
(* changes neither the buffer nor the timers.  And text leaves the buffer  *)
(* (processUserResponse is called) only when the silence timer, due,       *)
(* expires on a buffer that holds text.                                    *)
(***************************************************************************)
C14_SilenceTimerRestarts ==
    [][/\ Len(SilenceTimers(timers')) <= 1
       /\ Len(buffer') > Len(buffer)
            => /\ timers' # <<>>
               /\ LET n == Len(timers') IN
                    /\ timers'[n].k = "silence"
                    /\ timers'[n].d = SilenceDelay /\ timers'[n].total = SilenceDelay
                    /\ \A j \in 1..(n - 1) : timers'[j].a < timers'[n].a
       /\ Len(buffer') <= Len(buffer)
            => /\ Pending("silence")' => Pending("silence")
               /\ Pending("silence")'
                    => SilenceAt(timers') \in {SilenceAt(timers), SilenceAt(timers) - 1}
       /\ RecognitionInterim => buffer' = buffer /\ timers' = timers
       /\ (buffer # <<>> /\ buffer' = <<>>)
            => /\ TurnText # <<>>
               /\ \E i \in DOMAIN timers : timers[i].k = "silence" /\ Due(i)
               /\ ~Pending("silence")']_vars

\* A second final fragment has restarted the silence timer while the screen
\* listens.
C14_Witness ==
    /\ mounted /\ rec = "active"
    /\ Len(buffer) = 2
    /\ Len(SilenceTimers(timers)) = 1

(***************************************************************************)
(* C15.  The buffer is cleared when a turn is finalized or discarded:      *)
(* whenever the pending silence timer goes away, by expiring or by being   *)
(* cleared in stopListening or in the unmount, the buffer holds no text    *)
(* afterwards.                                                             *)
(* The code breaks it: the buffer is reset in the silence timer's callback *)
(* only; stopListening and the cleanup of the mount effect clear the timer *)
(* and leave the fragments in the buffer.                                  *)
(***************************************************************************)
C15_BufferClearedWithTimer ==
    [][(Pending("silence") /\ ~Pending("silence")')
        => trim(bufferText(buffer')) = <<>>]_vars

\* The step issues a request of this kind.
IssuesKind(kind) ==
    \E r \in BagToSet(fetches') :
        r.kind = kind /\ CopiesIn(r, fetches') > CopiesIn(r, fetches)

(***************************************************************************)
(* C16.  When the finalized text holds an advance phrase, the              *)
(* submit-answer request is issued for it.                                 *)
(* The code breaks it: the advance branch calls handleNextQuestion and     *)
(* returns; saveCurrentAnswer is never called for that text.               *)
(***************************************************************************)
C16_AdvancePersistsAnswer ==
    [][(Finalizes /\ HasAdvancePhrase(TurnText)) => IssuesKind("save")]_vars

\* The timer of the follow-up's advance cue is all that is pending.
OnlyNextPending ==
    /\ Len(timers) = 1 /\ timers[1].k = "handleNextQuestion"
    /\ synth = <<>> /\ cancelled = EmptyBag /\ fetches = EmptyBag

\* The step goes to completion: the closing line is to be spoken, no
\* transition to a question, and the current question stays.
GoesToClosing ==
    /\ Len(Speaking(timers', "closing")) = 1
    /\ Speaking(timers', "transition") = <<>>
    /\ currentQuestion' = currentQuestion

(***************************************************************************)
(* C17.  An advance cue handled at the last question, the user's phrase or *)
(* the follow-up's cue, goes to completion and asks no question.           *)
(* Stated for a cue handled while nothing else is under way.               *)
(* The code breaks it for lists of two or more questions:                  *)
(* handleNextQuestion compares the currentQuestion of the first render, 0, *)
(* with the last index and goes to question 1 again.                       *)
(***************************************************************************)
C17_AdvanceAtLastCompletes ==
    [][/\ (Finalizes /\ mounted /\ rec = "active" /\ ~TurnInProgress
                /\ HasAdvancePhrase(TurnText) /\ currentQuestion = numQ - 1)
            => GoesToClosing
       /\ (NextTimer /\ mounted /\ OnlyNextPending /\ currentQuestion = numQ - 1)
            => GoesToClosing]_vars

(***************************************************************************)
(* C18.  A repeat phrase (and no advance phrase) makes the session speak   *)
(* the current question again: the question index stays, no request is     *)
(* issued and the turn's text is dropped.                                  *)
(* Stated for a turn finalized while nothing else is under way.            *)
(* The code breaks it after the first question: the repeat branch reads    *)
(* the currentQuestion of the first render and speaks question 0.          *)
(***************************************************************************)
C18_RepeatSpeaksCurrent ==
    [][(Finalizes /\ mounted /\ rec = "active" /\ ~TurnInProgress
            /\ HasRepeatPhrase(TurnText) /\ ~HasAdvancePhrase(TurnText))
        => /\ \E i \in 1..Len(Speaking(timers', "repeat")) :
                  Speaking(timers', "repeat")[i].q = currentQuestion
           /\ currentQuestion' = currentQuestion
           /\ fetches' = fetches
           /\ buffer' = <<>>]_vars

\* A request of this kind settles in the step.
SettlesKind(kind, then) ==
    \E r \in BagToSet(fetches) :
        /\ r.kind = kind /\ r.then = then
        /\ fetches' = (fetches (-) SetToBag({r})) (+) SetToBag({Request(then, "none")})

\* The step queues one more line of this kind to be spoken.
Speaks(c) == Len(Speaking(timers', c)) > Len(Speaking(timers, c))

(***************************************************************************)
(* C19.  The remote calls of a turn are ordered.  A normal answer issues   *)
(* the save request and nothing else; a generate request is issued only by *)
(* the step in which a save request settles, one for one; the follow-up or *)
(* the fallback line is queued only by a step in which a generate request  *)
(* settles.  A finish phrase issues the save request alone, and a complete *)
(* request is issued only by the step in which that save settles, or by    *)
(* the timer set after the closing line.                                   *)
(***************************************************************************)
C19_RemoteCallsOrdered ==
    [][/\ (Finalizes /\ classify(TurnText) = "normal")
            => Issues(Request("save", "generate"))
       /\ (Finalizes /\ classify(TurnText) = "finish")
            => Issues(Request("save", "complete"))
       /\ IssuesKind("generate") => SettlesKind("save", "generate")
       /\ IssuesKind("complete")
            => SettlesKind("save", "complete") \/ Pending("completeInterview")
       /\ (Speaks("followup") \/ Speaks("fallback"))
            => \E r \in BagToSet(fetches) :
                  /\ r.kind = "generate"
                  /\ fetches' = fetches (-) SetToBag({r})]_vars

\* The follow-up has been requested and the save of the answer has settled.
C19_Witness ==
    /\ BagIn(Request("generate", "none"), fetches)
    /\ BagCardinality(fetches) = 1
    /\ waitingForResponse
    /\ buffer = <<>>

\* The step sets one timer of this kind.
SetsTimer(k) ==
    Len(SelectSeq(timers', LAMBDA tm : tm.k = k))
        = Len(SelectSeq(timers, LAMBDA tm : tm.k = k)) + 1

(***************************************************************************)
(* C20.  When a follow-up has finished playing the question index stays;   *)
(* with an advance cue in its text the session goes on without listening,  *)
(* from question i to the transition to question i + 1 (to the closing     *)
(* line at the last question), and without a cue it listens again.         *)
(* Stated for a session on screen with nothing else under way.             *)
(* The code breaks it after the first question: handleNextQuestion reads   *)
(* the currentQuestion of the first render and goes to question 1.         *)
(***************************************************************************)
C20_FollowUpCueAdvances ==
    [][/\ (mounted /\ synth # <<>> /\ Head(synth).c = "followup" /\ UtteranceEnd)
            => /\ currentQuestion' = currentQuestion
               /\ IF aiSuggestsMove(AIResponses[Head(synth).q])
                  THEN SetsTimer("handleNextQuestion")
                        /\ ~SetsTimer("startContinuousListening")
                  ELSE SetsTimer("startContinuousListening")
                        /\ ~SetsTimer("handleNextQuestion")
       /\ (NextTimer /\ mounted /\ OnlyNextPending /\ currentQuestion < numQ - 1)
            => /\ currentQuestion' = currentQuestion + 1
               /\ \E i \in DOMAIN timers' :
                      /\ timers'[i].k = "speak" /\ timers'[i].c = "transition"
                      /\ timers'[i].q = currentQuestion + 1
               /\ ~Pending("startContinuousListening")'
       /\ (NextTimer /\ mounted /\ OnlyNextPending /\ currentQuestion >= numQ - 1)
            => /\ Len(Speaking(timers', "closing")) = 1
               /\ ~Pending("startContinuousListening")']_vars

\* Line c is queued, playing, or cancelled with its event still to come.
Uttering(c) ==
    \/ \E i \in DOMAIN synth : synth[i].c = c
    \/ \E u \in BagToSet(cancelled) : u.c = c

\* How far the start-up has come: the start timer, the greeting (to be spoken,
\* spoken), the delay before question 0, the question (to be spoken, spoken),
\* the settling delay, the delay of recognition.start(), and past all of them.
StartUpStage ==
    IF Pending("startInterview") THEN 1
    ELSE IF Speaking(timers, "greeting") # <<>> THEN 2
    ELSE IF Uttering("greeting") THEN 3
    ELSE IF Pending("askQuestion") THEN 4
    ELSE IF Speaking(timers, "question") # <<>> THEN 5
    ELSE IF Uttering("question") THEN 6
    ELSE IF Pending("startContinuousListening") THEN 7
    ELSE IF Pending("recognitionStart") THEN 8
    ELSE 9

\* The user has not been heard yet.
NoTurnYet == finals = OneTurnFinals

\* Timers and utterances under way.
UnderWay == Len(timers) + Len(synth) + BagCardinality(cancelled)

(***************************************************************************)
(* C21.  Start-up is ordered.  Until the user is first heard one thing is  *)
(* under way at a time, in the order start timer, greeting, delay,         *)
(* question 0, settling delay, recognition.start(); the recognizer is idle *)
(* until the last of them, and no request is issued.  With no questions    *)
(* nothing is ever under way.                                              *)
(***************************************************************************)
C21_StartUpOrdered ==
    /\ [](NoTurnYet =>
            /\ UnderWay <= 1
            /\ fetches = EmptyBag
            /\ StartUpStage < 9 => rec = "idle" /\ ~isListening
            /\ \A i \in DOMAIN timers : timers[i].q = 0
            /\ numQ = 0 => UnderWay = 0 /\ rec = "idle")
    /\ [][(NoTurnYet /\ NoTurnYet')
            => \/ StartUpStage' \in {StartUpStage, StartUpStage + 1}
               \/ ~supported /\ StartUpStage = 7 /\ StartUpStage' = 9]_vars

\* Question 0 has been asked and the capture runs.
C21_Witness ==
    /\ NoTurnYet /\ mounted /\ numQ > 0
    /\ rec = "active" /\ isListening /\ UnderWay = 0

(***************************************************************************)
(* C22.  The history view is reached only through completion: the view is  *)
(* set by the timer of the final line, which is spoken only when the       *)
(* complete request has settled.  Once completeInterview has started (the  *)
(* screen is loading) no question is asked, recognition is not started     *)
(* and no save or generate request is issued.                              *)
(* The code breaks the second half: a final result that arrives after      *)
(* stop() starts a turn of its own (see C10), and that turn issues its     *)
(* requests and asks its question while the completion is under way.       *)
(***************************************************************************)
C22_CompletionIsTerminal ==
    [][/\ (view' = "history" /\ view # "history") => Pending("setCurrentView")
       /\ SetsTimer("setCurrentView") => Uttering("complete")
       /\ Speaks("complete")
            => \E r \in BagToSet(fetches) :
                  r.kind = "complete" /\ fetches' = fetches (-) SetToBag({r})
       /\ loading
            => /\ ~SetsTimer("askQuestion")
               /\ ~Speaks("question")
               /\ rec' = "starting" => rec = "starting"
               /\ ~IssuesKind("save")
               /\ ~IssuesKind("generate")]_vars

\* The step adds this record at the end of the log and changes nothing else of it.
Logs(record) == conversationHistory' = Append(conversationHistory, record)

(***************************************************************************)
(* C23.  The conversation log is append-only and chronological.  A step    *)
(* leaves the log as it is or adds one record at its end.  Asking a        *)
(* question adds its Question record.  A save request that resolves adds   *)
(* the Answer record in the step that goes on to the follow-up request,    *)
(* and an AIFollowUp record is added only by a step in which a generate    *)
(* request settles: the answer of a turn is logged before its follow-up.   *)
(* Stated for the screen being shown (the log goes with its component).    *)
(***************************************************************************)
C23_LogAppendOnly ==
    [][/\ \/ conversationHistory' = conversationHistory
          \/ /\ Len(conversationHistory') = Len(conversationHistory) + 1
             /\ SubSeq(conversationHistory', 1, Len(conversationHistory))
                    = conversationHistory
       /\ (mounted /\ AskTimer)
            => \E i \in DOMAIN timers :
                  timers[i].k = "askQuestion" /\ Logs(Record("question", timers[i].q))
       /\ \A r \in BagToSet(fetches) : \A out \in Outcomes \ {"reject"} :
            (mounted /\ SaveReply(r, out))
                => /\ Logs(Record("answer", r.q))
                   /\ r.then = "generate" => IssuesKind("generate")
       /\ (\E q \in 0..MaxQuestions : Logs(Record("ai_response", q)))
            => \E r \in BagToSet(fetches) :
                  r.kind = "generate" /\ fetches' = fetches (-) SetToBag({r})]_vars

\* A question, the answer to it and the follow-up have been logged in a row.
C23_Witness ==
    /\ Len(conversationHistory) >= 3
    /\ conversationHistory[Len(conversationHistory) - 2].type = "question"
    /\ conversationHistory[Len(conversationHistory) - 1].type = "answer"
    /\ conversationHistory[Len(conversationHistory)].type = "ai_response"

\* currentQuestion changes only by an advance cue being handled, and by one.
IndexAdvancesByOne ==
    [][currentQuestion' # currentQuestion
        => /\ currentQuestion' = currentQuestion + 1
           /\ (Finalizes /\ HasAdvancePhrase(TurnText)) \/ NextTimer]_vars

(***************************************************************************)
(* C24.  With a non-empty question list currentQuestion is an index of the *)
(* list in every state; it changes only when an advance cue is handled     *)
(* (the user's phrase, or the follow-up's cue through its timer), and then *)
(* by one.                                                                 *)
(***************************************************************************)
C24_IndexInRange ==
    /\ [](numQ > 0 => currentQuestion \in 0..(numQ - 1))
    /\ IndexAdvancesByOne

\* The index has advanced.
C24_Witness == mounted /\ numQ >= 2 /\ currentQuestion = 1

\* C24 as stated, for every question list: with an empty list currentQuestion
\* is 0 and no index of the list.
C24_IndexAlwaysInRange ==
    /\ [](currentQuestion \in 0..(numQ - 1))
    /\ IndexAdvancesByOne

\* The positions of the Question records in the log.
Asked == {i \in DOMAIN conversationHistory : conversationHistory[i].type = "question"}

\* The index of the question asked last.
LatestAsked ==
    conversationHistory[CHOOSE i \in Asked : \A j \in Asked : j <= i].q

(***************************************************************************)
(* C25.  Answers and follow-ups are attributed to the question asked last: *)
(* its index is the questionIndex of every Answer and AIFollowUp record    *)
(* added to the log and the question of every save and generate request    *)
(* issued.  Stated for the screen being shown, once a question was asked.  *)
(* The code breaks it after the first question: saveCurrentAnswer and      *)
(* generateAIResponse read the currentQuestion of the first render, 0.     *)
(***************************************************************************)
C25_AttributedToLatestQuestion ==
    [][(mounted /\ Asked # {})
        => /\ \A type \in {"answer", "ai_response"} : \A q \in 0..MaxQuestions :
                Logs(Record(type, q)) => q = LatestAsked
           /\ \A r \in BagToSet(fetches') :
                (r.kind \in {"save", "generate"}
                    /\ CopiesIn(r, fetches') > CopiesIn(r, fetches))
                => r.q = LatestAsked]_vars

(***************************************************************************)
(* C26.  A failed save never stops the turn.  When the save request is     *)
(* rejected the log is left as it is, and the step still issues the        *)
(* request that follows: generate for a normal answer, complete for a      *)
(* finish phrase.  An Answer record is added exactly when a save request   *)
(* resolves (while the screen is shown): by every such step, and by no     *)
(* other.                                                                  *)
(***************************************************************************)
C26_SaveFailureGoesOn ==
    [][/\ \A r \in BagToSet(fetches) :
            /\ SaveReply(r, "reject")
                => /\ conversationHistory' = conversationHistory
                   /\ SettlesKind("save", r.then)
            /\ \A out \in Outcomes \ {"reject"} :
                (mounted /\ SaveReply(r, out))
                    => /\ Logs(Record("answer", r.q))
                       /\ SettlesKind("save", r.then)
       /\ (\E q \in 0..MaxQuestions : Logs(Record("answer", q)))
            => \E r \in BagToSet(fetches) : \E out \in Outcomes \ {"reject"} :
                  SaveReply(r, out)]_vars

\* The save was rejected and the follow-up is requested all the same.
C26_Witness ==
    /\ mounted
    /\ BagIn(Request("generate", "none"), fetches)
    /\ conversationHistory # <<>>
    /\ \A i \in DOMAIN conversationHistory : conversationHistory[i].type # "answer"

(***************************************************************************)
(* C27.  waitingForResponse is false whenever the session is back in       *)
(* listening: the screen is shown, the recognizer runs and nothing of a    *)
(* turn is under way.                                                      *)
(* The code breaks it on the path of the user's advance phrase:            *)
(* processUserResponse sets the flag, and neither handleNextQuestion nor   *)
(* the continuations of the transition and of askQuestion reset it.        *)
(***************************************************************************)
C27_NotWaitingWhileListening ==
    (mounted /\ isListening /\ rec = "active" /\ ~TurnInProgress)
        => ~waitingForResponse

(***************************************************************************)
(* The InterviewSetup screen: the choice of a mode and startInterview,     *)
(* which uploads the resume (resume mode) and then starts the session.     *)
(* The Interview screen is not shown while this one is.                    *)
(***************************************************************************)
MaxAttempts == 2    \* calls of startInterview in one run

\* The files the user may choose (0 is no file) and the roles typed.
FileNames == <<
    <<"c","v",".","p","d","f">>,
    <<"c","v",".","t","x","t">>,
    <<"c","v",".","d","o","c">> >>
Roles == {<<>>, <<" ">>, <<"d","e","v">>}

\* String.prototype.endsWith
endsWith(t, p) ==
    Len(p) <= Len(t) /\ SubSeq(t, Len(t) - Len(p) + 1, Len(t)) = p

E_pdf == <<".","p","d","f">>
E_txt == <<".","t","x","t">>

\* A setter of the component: React drops it once the component is unmounted.
setSetup(s, field, v) == IF s.mounted THEN [s EXCEPT ![field] = v] ELSE s

\* The Start button's disabled attribute.
startDisabled(s) ==
    \/ s.mode = "none"
    \/ s.mode = "resume" /\ s.resume = 0
    \/ s.mode = "custom" /\ trim(s.role) = <<>>

\* The state of the interview's variables while the Interview is not shown.
InterviewOff ==
    /\ numQ = 0 /\ supported = TRUE /\ mounted = FALSE
    /\ currentQuestion = 0 /\ isListening = FALSE /\ isSpeaking = FALSE
    /\ waitingForResponse = FALSE /\ loading = FALSE
    /\ conversationHistory = <<>> /\ rec = "idle" /\ buffer = <<>>
    /\ timers = <<>> /\ synth = <<>> /\ cancelled = EmptyBag
    /\ fetches = EmptyBag /\ finals = 0 /\ vocabulary = {}
    /\ sample = <<>> /\ branch = "none"

InitSetup ==
    /\ InterviewOff
    /\ view = "setup"
    /\ setupScreen = [SetupOff EXCEPT !.mounted = TRUE]
    /\ historyScreen = HistoryOff

\* A step of the setup screen: it changes the component and App's view only.
SetupStep(s, v) ==
    /\ setupScreen' = s
    /\ view' = v
    /\ UNCHANGED <<numQ, supported, mounted, currentQuestion, isListening,
                   isSpeaking, waitingForResponse, loading, conversationHistory,
                   rec, buffer, timers, synth, cancelled, fetches, finals,
                   vocabulary, sample, branch, historyScreen>>

\* The form is shown while the component is mounted and not loading.
FormShown == setupScreen.mounted /\ ~setupScreen.loading

SetMode ==
    /\ FormShown
    /\ \E m \in {"resume", "custom", "default"} :
        SetupStep([setupScreen EXCEPT !.mode = m], view)

SetRole ==
    /\ FormShown /\ setupScreen.mode = "custom"
    /\ \E r \in Roles : SetupStep([setupScreen EXCEPT !.role = r], view)

\* handleResumeUpload with file f chosen (0: the dialog was cancelled).
handleResumeUpload(s, f) ==
    IF f = 0 THEN s
    ELSE IF ~endsWith(FileNames[f], E_pdf) /\ ~endsWith(FileNames[f], E_txt)
    THEN setSetup(s, "error", "Please upload a PDF or TXT file")
    ELSE setSetup(setSetup(s, "resume", f), "error", "")

ResumeChosen ==
    /\ FormShown /\ setupScreen.mode = "resume"
    /\ \E f \in {0} \cup DOMAIN FileNames :
        SetupStep(handleResumeUpload(setupScreen, f), view)

\* The end of startInterview without its finally block.
mAttemptEndsNoFinally(s, message) ==
    LET s1 == IF message # "" THEN setSetup(s, "error", message) ELSE s IN
    [s1 EXCEPT !.pc = "idle"]

\* The end of startInterview: the catch block (message # "") and finally.
attemptEnds(s, message) ==
    LET s1 == IF message # "" THEN setSetup(s, "error", message) ELSE s IN
    [setSetup(s1, "loading", FALSE) EXCEPT !.pc = "idle"]

\* startInterview up to its first await (or its return).
startInterview_setup(s) ==
    LET s1 == [setSetup(setSetup(s, "loading", TRUE), "error", "")
                  EXCEPT !.attempts = @ + 1]
    IN  IF s.mode = "resume"
        THEN IF s.resume = 0
             THEN attemptEnds(setSetup(s1, "error", "Please upload a resume"), "")
             ELSE [s1 EXCEPT !.pc = "upload"]
        ELSE [s1 EXCEPT !.pc = "start"]

\* A click on the Start button.
StartClicked ==
    /\ FormShown /\ ~startDisabled(setupScreen)
    /\ setupScreen.attempts < MaxAttempts
    /\ SetupStep(startInterview_setup(setupScreen), view)

\* The reply to the upload request: startInterview after its first await.
UploadReply(out) ==
    /\ setupScreen.pc = "upload"
    /\ SetupStep(CASE out = "ok" -> [setupScreen EXCEPT !.pc = "start"]
                   [] out = "reject" -> attemptEnds(setupScreen, "Failed to fetch")
                   [] OTHER -> attemptEnds(setupScreen, "Failed to upload resume"),
                 view)

UploadSettled == \E out \in Outcomes : UploadReply(out)

\* The reply to the start request.  onStart makes App show the Interview, which
\* unmounts this screen; whether setLoading(false) still reaches it depends on
\* React batching the updates made after an await.
StartReply(out) ==
    /\ setupScreen.pc = "start"
    /\ CASE out = "ok" ->
              \E batched \in BOOLEAN :
                SetupStep([(IF batched THEN attemptEnds(setupScreen, "")
                            ELSE [setupScreen EXCEPT !.pc = "idle"])
                              EXCEPT !.onStartCalls = @ + 1, !.mounted = FALSE],
                          "interview")
         [] out = "reject" -> SetupStep(attemptEnds(setupScreen, "Failed to fetch"), view)
         [] OTHER ->
              SetupStep(attemptEnds(setupScreen, "Failed to start interview"), view)

StartSettled == \E out \in Outcomes : StartReply(out)

\* The user leaves the screen by the navbar (Home, History, Logout).
SetupLeft ==
    /\ setupScreen.mounted
    /\ SetupStep([setupScreen EXCEPT !.mounted = FALSE], "home")

SetupNext ==
    \/ SetMode \/ SetRole \/ ResumeChosen \/ StartClicked
    \/ UploadSettled \/ StartSettled \/ SetupLeft

SetupSpec == InitSetup /\ [][SetupNext]_vars

(***************************************************************************)
(* C28.  onStart is called only by the ok reply to the start request, once *)
(* for it, so at most once an attempt.  In resume mode the start request   *)
(* is issued only by the ok reply to the upload, and an attempt without a  *)
(* resume issues none (the Start button is disabled then, so there is no   *)
(* such attempt).  While the screen is shown, loading is true exactly      *)
(* while an attempt is under way, and an attempt that ends without onStart *)
(* leaves an error message.                                                *)
(***************************************************************************)
C28_StartAttempt ==
    /\ [](/\ setupScreen.onStartCalls <= setupScreen.attempts
          /\ setupScreen.mounted
                => (setupScreen.loading <=> setupScreen.pc # "idle"))
    /\ [][/\ setupScreen.onStartCalls' # setupScreen.onStartCalls
                => /\ setupScreen.onStartCalls' = setupScreen.onStartCalls + 1
                   /\ StartReply("ok")
          /\ (setupScreen.pc' = "start" /\ setupScreen.pc # "start")
                => \/ setupScreen.mode # "resume" /\ StartClicked
                   \/ setupScreen.mode = "resume" /\ UploadReply("ok")
          /\ (setupScreen.pc' = "upload" /\ setupScreen.pc # "upload")
                => setupScreen.mode = "resume" /\ setupScreen.resume # 0
          /\ (StartClicked /\ setupScreen.mode = "resume" /\ setupScreen.resume = 0)
                => setupScreen.pc' = "idle"
          /\ (setupScreen.pc # "idle" /\ setupScreen.pc' = "idle"
                    /\ setupScreen.onStartCalls' = setupScreen.onStartCalls
                    /\ setupScreen.mounted)
                => setupScreen.error' # "" /\ ~setupScreen.loading']_vars

\* A failed attempt, and then one that called onStart after the upload.
C28_Witness ==
    /\ setupScreen.mode = "resume"
    /\ setupScreen.attempts = 2
    /\ setupScreen.onStartCalls = 1
    /\ view = "interview"

(***************************************************************************)
(* The History screen: the list is fetched on mount, and a click on an     *)
(* interview fetches its details.                                          *)
(***************************************************************************)
MaxInterviews == 2  \* interviews in the list
MaxClicks == 3      \* clicks on interviews in one run

InitHistory ==
    /\ InterviewOff
    /\ view = "history"
    /\ setupScreen = SetupOff
    /\ historyScreen = [HistoryOff EXCEPT !.mounted = TRUE]

\* A setter of the component: React drops it once the component is unmounted.
setHistory(s, field, v) == IF s.mounted THEN [s EXCEPT ![field] = v] ELSE s

\* A step of the history screen: it changes the component and App's view only.
HistoryStep(s, v) ==
    /\ historyScreen' = s
    /\ view' = v
    /\ UNCHANGED <<numQ, supported, mounted, currentQuestion, isListening,
                   isSpeaking, waitingForResponse, loading, conversationHistory,
                   rec, buffer, timers, synth, cancelled, fetches, finals,
                   vocabulary, sample, branch, setupScreen>>

\* fetchHistory after its fetch: the list (it may be empty), or the error.
HistoryReply(out) ==
    /\ historyScreen.list = "loading"
    /\ \E n \in {0, MaxInterviews} :
        HistoryStep(IF ~historyScreen.mounted
                    THEN [historyScreen EXCEPT !.list = "gone"]
                    ELSE IF out # "ok" THEN [historyScreen EXCEPT !.list = "error"]
                    ELSE IF n = 0 THEN [historyScreen EXCEPT !.list = "empty"]
                    ELSE [historyScreen EXCEPT !.list = "shown"],
                    view)

HistorySettled == \E out \in Outcomes : HistoryReply(out)

\* fetchInterviewDetails up to its await.  n numbers the clicks.
fetchInterviewDetails(s, interviewId) ==
    [s EXCEPT !.requests = Append(@, [id |-> interviewId, n |-> s.clicks + 1]),
              !.clicks = @ + 1,
              !.latestId = interviewId, !.latestOutcome = "pending"]

\* A click on an interview of the list.
InterviewClicked ==
    /\ historyScreen.mounted /\ historyScreen.list = "shown"
    /\ historyScreen.clicks < MaxClicks
    /\ \E interviewId \in 1..MaxInterviews :
        HistoryStep(fetchInterviewDetails(historyScreen, interviewId), view)

\* fetchInterviewDetails after its fetch, for the request at position i.
detailsSettled(s, i, out) ==
    LET r == s.requests[i]
        s1 == [s EXCEPT !.requests = RemoveAt(@, i),
                        !.latestOutcome = IF r.n # s.clicks THEN @
                                          ELSE IF out = "ok" THEN "ok" ELSE "failed"]
    IN  IF out = "ok"
        THEN setHistory(setHistory(s1, "interviewDetails", r.id),
                        "selectedInterview", r.id)
        ELSE s1

\* The reply to a detail request; replies come in any order.
DetailReply(i, out) ==
    /\ i \in DOMAIN historyScreen.requests
    /\ HistoryStep(detailsSettled(historyScreen, i, out), view)

DetailSettled ==
    \E i \in DOMAIN historyScreen.requests : \E out \in Outcomes : DetailReply(i, out)

\* The user leaves the screen by the navbar (Home, Logout).
HistoryLeft ==
    /\ historyScreen.mounted
    /\ HistoryStep([historyScreen EXCEPT !.mounted = FALSE], "home")

HistoryNext ==
    \/ HistorySettled \/ InterviewClicked \/ DetailSettled \/ HistoryLeft

HistorySpec == InitHistory /\ [][HistoryNext]_vars

(***************************************************************************)
(* C29.  selectedInterview and interviewDetails are always those of the    *)
(* same interview, and once every detail request has settled, with the     *)
(* request of the last click answered, they are those of the interview     *)
(* clicked last.                                                           *)
(* The code breaks the second half: every reply sets both, in the order    *)
(* the replies arrive, so a reply to an earlier click that arrives after   *)
(* the reply to the last one puts the earlier interview back.              *)
(***************************************************************************)
C29_ShowsLatestClicked ==
    /\ historyScreen.selectedInterview = historyScreen.interviewDetails
    /\ (historyScreen.mounted /\ historyScreen.requests = <<>>
            /\ historyScreen.latestOutcome = "ok")
        => /\ historyScreen.selectedInterview = historyScreen.latestId
           /\ historyScreen.interviewDetails = historyScreen.latestId

====
